---- MODULE Spec2Model ----
(***************************************************************************)
(* A model of molex-ftp-client: the control session (lib/connection.js),   *)
(* the facade's session fields (lib/FTPClient.js) and the transfer flow    *)
(* of lib/commands.js.                                                     *)
(*                                                                         *)
(* JavaScript runs every handler to completion, so one action of the model *)
(* is one macrotask (a socket event, a timer, a call of the caller)        *)
(* together with the promise continuations (microtasks) it makes runnable. *)
(* Strings are sequences of one-character strings, so parseInt, charAt,    *)
(* substring, startsWith and split are computed as the code computes them. *)
(***************************************************************************)
EXTENDS Integers, Sequences, FiniteSets, TLC

(***************************************************************************)
(* Bounds of the model                                                     *)
(***************************************************************************)
\* the number of sendCommand calls of one run
MaxCommands == 3
\* the number of connect() calls of one run
MaxConnects == 1
\* the number of lines of one chunk of the control socket
MaxChunkLines == 2
\* the 'data' events of a data socket that a transfer counts
MaxDataChunks == 1
MaxStream == 24

(***************************************************************************)
(* Strings                                                                 *)
(***************************************************************************)
CR == "\r"
LF == "\n"
CRLF == <<CR, LF>>

Digits == {"0", "1", "2", "3", "4", "5", "6", "7", "8", "9"}

DigitVal(c) ==
  CASE c = "0" -> 0 [] c = "1" -> 1 [] c = "2" -> 2 [] c = "3" -> 3
    [] c = "4" -> 4 [] c = "5" -> 5 [] c = "6" -> 6 [] c = "7" -> 7
    [] c = "8" -> 8 [] c = "9" -> 9

Min(a, b) == IF a < b THEN a ELSE b

\* String.prototype.substring(from, to) and substring(from), 0-based
substring(s, from, to) == SubSeq(s, Min(from, Len(s)) + 1, Min(to, Len(s)))
substringFrom(s, from) == SubSeq(s, Min(from, Len(s)) + 1, Len(s))

\* String.prototype.charAt(i): the empty string past the end
charAt(s, i) == IF i < Len(s) THEN s[i + 1] ELSE ""

\* String.prototype.startsWith(p)
startsWith(s, p) == Len(s) >= Len(p) /\ SubSeq(s, 1, Len(p)) = p

\* String.prototype.includes(p)
includes(s, p) ==
  \E i \in 0..Len(s) : i + Len(p) <= Len(s) /\ SubSeq(s, i + 1, i + Len(p)) = p

RECURSIVE lastIndexOf(_, _)
\* String.prototype.lastIndexOf(c) for a character c: 0-based, -1 for none
lastIndexOf(s, c) ==
  IF s = <<>> THEN -1
  ELSE IF s[Len(s)] = c THEN Len(s) - 1
  ELSE lastIndexOf(SubSeq(s, 1, Len(s) - 1), c)

RECURSIVE replaceBackslashes(_)
\* .replace(/\\/g, '/')
replaceBackslashes(s) ==
  IF s = <<>> THEN <<>>
  ELSE <<IF Head(s) = "\\" THEN "/" ELSE Head(s)>>
         \o replaceBackslashes(Tail(s))

RECURSIVE collapseSlashes(_)
\* .replace(/\/+/g, '/')
collapseSlashes(s) ==
  IF Len(s) < 2 THEN s
  ELSE IF s[1] = "/" /\ s[2] = "/" THEN collapseSlashes(Tail(s))
  ELSE <<Head(s)>> \o collapseSlashes(Tail(s))

\* normalizePath(path)
normalizePath(path) == collapseSlashes(replaceBackslashes(path))

\* getParentDir(filePath)
getParentDir(filePath) ==
  LET normalized == normalizePath(filePath)
      lastSlash == lastIndexOf(normalized, "/")
  IN  IF lastSlash <= 0 THEN <<"/">> ELSE substring(normalized, 0, lastSlash)

\* the value of the JavaScript NaN: no comparison with it is true
NaN == -1000
Ge(x, n) == x # NaN /\ x >= n
Lt(x, n) == x # NaN /\ x < n

RECURSIVE DigitRun(_, _)
\* the longest prefix of decimal digits of s, as <<value, length>>, from acc
DigitRun(s, acc) ==
  IF s # <<>> /\ Head(s) \in Digits
  THEN DigitRun(Tail(s), <<acc[1] * 10 + DigitVal(Head(s)), acc[2] + 1>>)
  ELSE acc

RECURSIVE TrimStart(_)
TrimStart(s) ==
  IF s # <<>> /\ Head(s) \in {" ", CR, LF, "\t"} THEN TrimStart(Tail(s)) ELSE s

\* parseInt(s) without a radix: leading white space, an optional sign, then
\* decimal digits up to the first other character; NaN when there is no digit
parseInt(s) ==
  LET t == TrimStart(s)
      neg == t # <<>> /\ Head(t) = "-"
      u == IF t # <<>> /\ Head(t) \in {"-", "+"} THEN Tail(t) ELSE t
      r == DigitRun(u, <<0, 0>>)
  IN  IF r[2] = 0 THEN NaN ELSE IF neg THEN 0 - r[1] ELSE r[1]

RECURSIVE toString(_)
\* `${n}` for a number n that is not negative
toString(n) ==
  IF n < 10 THEN <<CHOOSE c \in Digits : DigitVal(c) = n>>
  ELSE toString(n \div 10) \o <<CHOOSE c \in Digits : DigitVal(c) = n % 10>>

RECURSIVE split(_)
\* String.prototype.split('\r\n'): the segments between the separators
split(s) ==
  IF \E i \in 1..(Len(s) - 1) : s[i] = CR /\ s[i + 1] = LF
  THEN LET i == CHOOSE k \in 1..(Len(s) - 1) :
                  /\ s[k] = CR /\ s[k + 1] = LF
                  /\ \A j \in 1..(k - 1) : ~(s[j] = CR /\ s[j + 1] = LF)
       IN  <<SubSeq(s, 1, i - 1)>> \o split(SubSeq(s, i + 2, Len(s)))
  ELSE <<s>>

\* utils.maskPassword
PASS_ == <<"P", "A", "S", "S", " ">>
Stars == <<"*", "*", "*", "*", "*", "*", "*", "*">>
maskPassword(command) ==
  IF startsWith(command, PASS_) THEN PASS_ \o Stars ELSE command


(***************************************************************************)
(* Texts of the commands and of the lines the server may send              *)
(***************************************************************************)
USER_ == <<"U", "S", "E", "R", " ">>
QUIT == <<"Q", "U", "I", "T">>
CWD_ == <<"C", "W", "D", " ">>
PASV == <<"P", "A", "S", "V">>
MKD_ == <<"M", "K", "D", " ">>
SIZE_ == <<"S", "I", "Z", "E", " ">>
RETR_ == <<"R", "E", "T", "R", " ">>
LIST_ == <<"L", "I", "S", "T", " ">>
STOR_ == <<"S", "T", "O", "R", " ">>

\* the options of connect(): the user names and the passwords a caller gives
Users == {<<"u">>}
Passwords == {<<"p", "w">>}
\* the paths a caller gives
Paths == {<<"/", "a">>}
\* the data a caller uploads; the empty string is falsy
Payloads == {<<>>, <<"h", "i">>}
\* the remotePath arguments of an upload that may ensure the parent
FileTargets == {<<"/", "a", "/", "f">>, <<"/", "f">>}
\* the dirPath arguments of ensureDir
DirPaths == {<<"/", "a", "/", "b">>, <<"\\", "a">>, <<"/", "/">>, <<".">>}
\* the remotePath arguments of exists
FilePaths == {<<"/", "f">>, <<"/", "a">>}
\* chunks of a file arriving on a data socket
Chunk1 == <<"x">>
Chunk2 == <<"y", "z">>

\* the greeting, a final 2xx line
Line220 == <<"2", "2", "0", " ", "o", "k">>
\* the first line of a multi-line greeting
Line220Cont == <<"2", "2", "0", "-", "h", "i">>
\* a final 2xx line that is no greeting
Line230 == <<"2", "3", "0", " ", "o", "k">>
\* a final error line
Line530 == <<"5", "3", "0", " ", "n", "o">>
\* a preliminary reply
Line150 == <<"1", "5", "0", " ", "g", "o">>
\* the terminal reply of a transfer, and the first line of a multi-line one
Line226 == <<"2", "2", "6", " ", "o", "k">>
Line226Cont == <<"2", "2", "6", "-", "o", "k">>
\* the reply to PASV
Line227 == <<"2", "2", "7", " ", "(", "1", ",", "2", ",", "3", ",", "4", ",",
             "5", ",", "6", ")">>
\* the addresses the server answers PASV with
PasvTuples ==
  {<<127, 0, 0, 1, 200, 50>>, <<10, 0, 0, 9, 0, 21>>, <<300, 0, 0, 1, 256, 0>>}
\* 227 =(h1,h2,h3,h4,p1,p2).
PasvLine(t) ==
  <<"2", "2", "7", " ", "=", "(">> \o toString(t[1]) \o <<",">>
    \o toString(t[2]) \o <<",">> \o toString(t[3]) \o <<",">>
    \o toString(t[4]) \o <<",">> \o toString(t[5]) \o <<",">>
    \o toString(t[6]) \o <<")", ".">>
\* replies to PASV without the six numbers in parentheses
Line227None == <<"2", "2", "7", " ", "o", "k">>
Line227Five == <<"2", "2", "7", " ", "(", "1", ",", "2", ",", "3", ",", "4",
                 ",", "5", ")">>
\* the replies to CWD, MKD and SIZE
Line250 == <<"2", "5", "0", " ", "o", "k">>
Line257 == <<"2", "5", "7", " ", "o", "k">>
Line550 == <<"5", "5", "0", " ", "n", "o">>
Line550Exists == <<"5", "5", "0", " ", "e", "x", "i", "s", "t", "s">>
Line550Denied == <<"5", "5", "0", " ", "d", "e", "n", "i", "e", "d">>
Line213 == <<"2", "1", "3", " ", "5">>
Line500 == <<"5", "0", "0", " ", "n", "o">>
\* a line shorter than 4 characters
LineShort == <<"2", "2">>
\* a line whose first three characters are not digits
LineText == <<"a", "b", "c", " ", "d">>

\* the lines the server sends while a session is set up
LoginLines == {Line220, Line220Cont, Line230, Line530}
\* the reply to USER that asks for the password
Line331 == <<"3", "3", "1", " ", "p", "w">>
\* the lines the server sends in the exchange of connect()
HandshakeLines == {Line220, Line331, Line230, Line530}

\* a line of a multi-line error reply
Line530Cont == <<"5", "3", "0", "-", "n", "o">>

\* the lines the server sends in an authenticated session
SessionLines == {Line150, Line226, Line226Cont, Line227, Line530, LineShort,
                 LineText}
\* the lines the server sends to a sendCommand call
DispatchLines == SessionLines \cup {Line530Cont}

RECURSIVE Join(_)
\* the bytes of a sequence of lines, each terminated by CRLF
Join(ls) == IF ls = <<>> THEN <<>> ELSE Head(ls) \o CRLF \o Join(Tail(ls))

RECURSIVE SeqsUpTo(_, _)
\* the sequences over S of length 1..n
SeqsUpTo(S, n) ==
  IF n = 0 THEN {}
  ELSE {<<x>> : x \in S}
       \cup {Append(q, x) : q \in SeqsUpTo(S, n - 1), x \in S}

\* the chunks the control socket delivers: whole lines out of the set S
Chunks(S) == {Join(ls) : ls \in SeqsUpTo(S, MaxChunkLines)}
LoginChunks == Chunks(LoginLines)
SessionChunks == Chunks(SessionLines)
HandshakeChunks == Chunks(HandshakeLines)

(***************************************************************************)
(* State                                                                   *)
(***************************************************************************)
VARIABLES
  connected,      \* FTPClient.connected
  authenticated,  \* FTPClient.authenticated
  commandCount,   \* FTPClient._commandCount
  lastCommand,    \* FTPClient._lastCommand, <<>> for null
  buffer,         \* FTPClient.buffer
  socket,         \* state of FTPClient.socket
  written,        \* what has been written to the control socket
  cmds,           \* the promises of the sendCommand calls, in call order
  listeners,      \* the 'response' listeners of the client, in order
  conns,          \* the promises of the connect() calls
  xfers,          \* the transfers: their promises and their data sockets
  op,             \* the public operation the caller is awaiting
  emitted,        \* the 'response' notifications of the last macrotask, when
                  \* the run records them, or all of them when it keeps them
  received,       \* what has arrived on the control socket, when the run
                  \* keeps it
  server          \* the FTP server: how many of the written commands it has
                  \* answered, and its directories

vars == <<connected, authenticated, commandCount, lastCommand, buffer, socket,
          written, cmds, listeners, conns, xfers, op, emitted, received,
          server>>

\* the state as one value, with the queue of runnable promise continuations
State ==
  [connected |-> connected, authenticated |-> authenticated,
   commandCount |-> commandCount, lastCommand |-> lastCommand,
   buffer |-> buffer, socket |-> socket, written |-> written, cmds |-> cmds,
   listeners |-> listeners, conns |-> conns, xfers |-> xfers, op |-> op,
   emitted |-> <<>>, received |-> received, server |-> server,
   mq |-> <<>>]

NoResult == [kind |-> "none", code |-> 0, message |-> <<>>, raw |-> <<>>]
NoCont == [kind |-> "none"]
\* the err of the control socket's 'error' event
SocketFailed == [NoResult EXCEPT !.kind = "socket"]
\* new Error('Connection timeout')
ConnectionTimeout == [NoResult EXCEPT !.kind = "connecttimeout"]

RECURSIVE Without(_, _)
\* EventEmitter.removeListener: the sequence without its last entry equal to l
Without(ls, l) ==
  IF ls = <<>> THEN <<>>
  ELSE IF ls[Len(ls)] = l THEN SubSeq(ls, 1, Len(ls) - 1)
  ELSE Append(Without(SubSeq(ls, 1, Len(ls) - 1), l), ls[Len(ls)])

Subscribed(ls, l) == \E j \in 1..Len(ls) : ls[j] = l

\* a promise of sendCommand settles once; its continuation becomes runnable
settle(st, i, how, result) ==
  IF st.cmds[i].state = "pending"
  THEN [st EXCEPT !.cmds[i].state = how, !.cmds[i].result = result,
                  !.mq = Append(@, i)]
  ELSE st

\* the caller's await of the public operation it started
settleOp(o, kind, id, how) ==
  IF o.kind = kind /\ o.id = id /\ o.state = "pending"
  THEN [o EXCEPT !.state = how] ELSE o

\* the promise of a connect() call settles once, error being what it is
\* rejected with
settleConn(st, c, how, error) ==
  IF st.conns[c].state = "pending"
  THEN [st EXCEPT !.conns[c].state = how,
                  !.conns[c].error = error,
                  !.op = settleOp(@, "connect", c, how)]
  ELSE st

RECURSIVE concat(_)
\* Buffer.concat(chunks)
concat(chunks) ==
  IF chunks = <<>> THEN <<>> ELSE Head(chunks) \o concat(Tail(chunks))

\* the promise of a transfer settles once
settleXfer(st, t, how) ==
  IF st.xfers[t].state = "pending"
  THEN [st EXCEPT !.xfers[t].state = how,
                  !.xfers[t].result =
                    IF how = "resolved" /\ st.xfers[t].kind # "upload"
                    THEN concat(st.xfers[t].chunks) ELSE <<>>,
                  !.op = settleOp(@, st.xfers[t].kind, t, how)]
  ELSE st

\* sendCommand without its check of the connected flag
sendCommandUnchecked(st, command, allowPreliminary, cont) ==
  [st EXCEPT !.commandCount = @ + 1,
             !.lastCommand = command,
             !.cmds = Append(@, [command |-> command,
                                 allowPreliminary |-> allowPreliminary,
                                 state |-> "pending", result |-> NoResult,
                                 timer |-> TRUE, cont |-> cont]),
             !.listeners = Append(@, [kind |-> "cmd", id |-> Len(st.cmds) + 1]),
             !.written = Append(@, command \o CRLF)]

\* sendCommand counting the call before its check of the connected flag
sendCommandCountsCalls(st, command, allowPreliminary, cont) ==
  IF ~st.connected
  THEN settle([st EXCEPT !.commandCount = @ + 1,
                         !.cmds = Append(@, [command |-> command,
                                             allowPreliminary |-> allowPreliminary,
                                             state |-> "pending",
                                             result |-> NoResult,
                                             timer |-> FALSE, cont |-> cont])],
              Len(st.cmds) + 1, "rejected",
              [NoResult EXCEPT !.kind = "notconnected"])
  ELSE sendCommandUnchecked(st, command, allowPreliminary, cont)

\* FTPConnection.sendCommand, cont being the code that awaits the call
sendCommand(st, command, allowPreliminary, cont) ==
  LET i == Len(st.cmds) + 1
      new == [command |-> command, allowPreliminary |-> allowPreliminary,
              state |-> "pending", result |-> NoResult, timer |-> FALSE,
              cont |-> cont]
  IN  IF ~st.connected
      THEN settle([st EXCEPT !.cmds = Append(@, new)], i, "rejected",
                  [NoResult EXCEPT !.kind = "notconnected"])
      ELSE [st EXCEPT !.commandCount = @ + 1,
                      !.lastCommand = command,
                      !.cmds = Append(@, [new EXCEPT !.timer = TRUE]),
                      !.listeners = Append(@, [kind |-> "cmd", id |-> i]),
                      !.written = Append(@, command \o CRLF)]

\* a timer of sendCommand that destroys the control socket as well
commandTimeoutResets(st, i) ==
  settle([st EXCEPT !.cmds[i].timer = FALSE,
                    !.listeners = Without(@, [kind |-> "cmd", id |-> i]),
                    !.socket = "closed",
                    !.connected = FALSE,
                    !.authenticated = FALSE],
         i, "rejected",
         [NoResult EXCEPT !.kind = "timeout",
                          !.message = maskPassword(st.cmds[i].command)])

\* the timer of sendCommand
commandTimeout(st, i) ==
  settle([st EXCEPT !.cmds[i].timer = FALSE,
                    !.listeners = Without(@, [kind |-> "cmd", id |-> i])],
         i, "rejected",
         [NoResult EXCEPT !.kind = "timeout",
                          !.message = maskPassword(st.cmds[i].command)])

\* the outcome of responseHandler for a line it takes as the final reply
finalReply(st, i, line, resolves) ==
  settle([st EXCEPT !.cmds[i].timer = FALSE,
                    !.listeners = Without(@, [kind |-> "cmd", id |-> i])],
         i, IF resolves THEN "resolved" ELSE "rejected",
         [kind |-> IF resolves THEN "reply" ELSE "ftperror",
          code |-> parseInt(substring(line, 0, 3)),
          message |-> substringFrom(line, 4),
          raw |-> IF resolves THEN line ELSE <<>>])

\* responseHandler resolving on every code from 200 on
responseHandlerResolves5xx(st, i, line) ==
  IF charAt(line, 3) = " "
  THEN IF /\ Ge(parseInt(substring(line, 0, 3)), 100)
          /\ Lt(parseInt(substring(line, 0, 3)), 200)
          /\ st.cmds[i].allowPreliminary
       THEN [st EXCEPT !.cmds[i].timer = FALSE]
       ELSE finalReply(st, i, line, Ge(parseInt(substring(line, 0, 3)), 200))
  ELSE [st EXCEPT !.cmds[i].timer = FALSE]

\* responseHandler without its test of allowPreliminary
responseHandlerNoPreliminary(st, i, line) ==
  IF charAt(line, 3) = " "
  THEN finalReply(st, i, line, /\ Ge(parseInt(substring(line, 0, 3)), 200)
                               /\ Lt(parseInt(substring(line, 0, 3)), 400))
  ELSE [st EXCEPT !.cmds[i].timer = FALSE]

\* responseHandler without its test of the 4th character
responseHandlerAnyLine(st, i, line) ==
  IF /\ Ge(parseInt(substring(line, 0, 3)), 100)
     /\ Lt(parseInt(substring(line, 0, 3)), 200)
     /\ st.cmds[i].allowPreliminary
  THEN [st EXCEPT !.cmds[i].timer = FALSE]
  ELSE finalReply(st, i, line, /\ Ge(parseInt(substring(line, 0, 3)), 200)
                               /\ Lt(parseInt(substring(line, 0, 3)), 400))

\* the responseHandler of the sendCommand call i
responseHandler(st, i, line) ==
  IF charAt(line, 3) = " "
  THEN IF /\ Ge(parseInt(substring(line, 0, 3)), 100)
          /\ Lt(parseInt(substring(line, 0, 3)), 200)
          /\ st.cmds[i].allowPreliminary
       THEN [st EXCEPT !.cmds[i].timer = FALSE]
       ELSE finalReply(st, i, line, /\ Ge(parseInt(substring(line, 0, 3)), 200)
                                    /\ Lt(parseInt(substring(line, 0, 3)), 400))
  ELSE [st EXCEPT !.cmds[i].timer = FALSE]

\* a finalHandler that takes every reply of class 2 as the terminal one
finalHandlerAny2xx(st, t, line) ==
  IF /\ Ge(parseInt(substring(line, 0, 3)), 200)
     /\ Lt(parseInt(substring(line, 0, 3)), 300)
  THEN settleXfer([st EXCEPT !.listeners =
                               Without(@, [kind |-> "final", id |-> t])],
                  t, "resolved")
  ELSE st

\* the finalHandler of the transfer t: of upload, of download, or of list,
\* which has no branch for the codes from 400 on
finalHandler(st, t, line) ==
  IF \/ parseInt(substring(line, 0, 3)) = 226
     \/ parseInt(substring(line, 0, 3)) = 250
  THEN settleXfer([st EXCEPT !.listeners =
                               Without(@, [kind |-> "final", id |-> t])],
                  t, "resolved")
  ELSE IF Ge(parseInt(substring(line, 0, 3)), 400) /\ st.xfers[t].kind # "list"
  THEN settleXfer([st EXCEPT !.listeners =
                               Without(@, [kind |-> "final", id |-> t])],
                  t, "rejected")
  ELSE st

callListener(st, l, line) ==
  IF l.kind = "cmd" THEN responseHandler(st, l.id, line)
  ELSE finalHandler(st, l.id, line)

RECURSIVE emitTo(_, _, _)
emitTo(st, ls, line) ==
  IF ls = <<>> THEN st
  ELSE emitTo(callListener(st, Head(ls), line), Tail(ls), line)

\* history: the pending transfers whose command has been written have seen
\* the line, a final reply of a code from 400 on
observe(st, line) ==
  IF charAt(line, 3) = " " /\ Ge(parseInt(substring(line, 0, 3)), 400)
  THEN [st EXCEPT !.xfers =
          [t \in DOMAIN @ |->
             IF @[t].state = "pending" /\ @[t].cmd
             THEN [@[t] EXCEPT !.seen400 = TRUE] ELSE @[t]]]
  ELSE st

\* EventEmitter.emit('response', line): the listeners subscribed at the call
emit(st, line) ==
  emitTo(observe([st EXCEPT !.emitted = Append(@, line)], line),
         st.listeners, line)

RECURSIVE forLines(_, _, _)
RECURSIVE forLine(_, _, _)
\* the body of the loop starting the handshake on every positive completion
\* reply
forLineAny2xx(s1, c, rest) ==
  IF /\ Ge(parseInt(substring(Head(rest), 0, 3)), 200)
     /\ Lt(parseInt(substring(Head(rest), 0, 3)), 300)
     /\ ~s1.authenticated
  THEN sendCommand(s1, USER_ \o s1.conns[c].user, FALSE,
                   [kind |-> "auth", phase |-> "user", conn |-> c,
                    rest |-> Tail(rest)])
  ELSE forLines(s1, c, Tail(rest))

\* the body of the for loop of the 'data' handler after its emit of rest[1],
\* s1 being the state the listeners have left
forLine(s1, c, rest) ==
  IF parseInt(substring(Head(rest), 0, 3)) = 220 /\ ~s1.authenticated
  THEN sendCommand(s1, USER_ \o s1.conns[c].user, FALSE,
                   [kind |-> "auth", phase |-> "user", conn |-> c,
                    rest |-> Tail(rest)])
  ELSE forLines(s1, c, Tail(rest))

\* the for loop of the 'data' handler of the connect() call c, from the line
\* rest[1] on, up to its end or to its next await
forLines(st, c, rest) ==
  IF rest = <<>> THEN st
  ELSE IF Head(rest) = <<>> THEN forLines(st, c, Tail(rest))
  ELSE forLine(emit(st, Head(rest)), c, rest)

\* the 'data' handler of the control socket of the connect() call c
dataHandler(st, c, data) ==
  LET lines == split(st.buffer \o data)
  IN  forLines([st EXCEPT !.buffer = lines[Len(lines)]], c,
               SubSeq(lines, 1, Len(lines) - 1))

\* the code after the awaits with a catch block that does not reject
authenticateSwallows(st, i) ==
  IF st.cmds[i].state # "resolved"
  THEN forLines([st EXCEPT !.cmds[i].cont = NoCont], st.cmds[i].cont.conn,
                st.cmds[i].cont.rest)
  ELSE IF st.cmds[i].cont.phase = "user"
  THEN sendCommand([st EXCEPT !.cmds[i].cont = NoCont],
                   PASS_ \o st.conns[st.cmds[i].cont.conn].password, FALSE,
                   [st.cmds[i].cont EXCEPT !.phase = "pass"])
  ELSE forLines(settleConn([st EXCEPT !.cmds[i].cont = NoCont,
                                      !.authenticated = TRUE],
                           st.cmds[i].cont.conn, "resolved", NoResult),
                st.cmds[i].cont.conn, st.cmds[i].cont.rest)

\* the code after `await this.sendCommand(...)` of the 'data' handler
authenticate(st, i) ==
  LET k == st.cmds[i].cont
      ok == st.cmds[i].state = "resolved"
      s0 == [st EXCEPT !.cmds[i].cont = NoCont]
  IN  IF ~ok
      THEN forLines(settleConn(s0, k.conn, "rejected", st.cmds[i].result),
                    k.conn, k.rest)
      ELSE IF k.phase = "user"
      THEN sendCommand(s0, PASS_ \o st.conns[k.conn].password, FALSE,
                       [k EXCEPT !.phase = "pass"])
      ELSE forLines(settleConn([s0 EXCEPT !.authenticated = TRUE],
                               k.conn, "resolved", NoResult),
                    k.conn, k.rest)

\* socket.end(): the write side of an open socket is closed
socketEnd(s) == IF s = "open" THEN "ended" ELSE s

\* close() without its try block: the failure of QUIT is thrown
closeAfterQuitThrows(st, i) ==
  IF st.cmds[i].state = "rejected"
  THEN [st EXCEPT !.cmds[i].cont = NoCont,
                  !.op = settleOp(@, "close", 0, "rejected")]
  ELSE [st EXCEPT !.cmds[i].cont = NoCont,
                  !.socket = socketEnd(@),
                  !.connected = FALSE,
                  !.authenticated = FALSE,
                  !.op = settleOp(@, "close", 0, "resolved")]

\* the code after `await this.sendCommand('QUIT')` of close()
closeAfterQuit(st, i) ==
  [st EXCEPT !.cmds[i].cont = NoCont,
             !.socket = socketEnd(@),
             !.connected = FALSE,
             !.authenticated = FALSE,
             !.op = settleOp(@, "close", 0, "resolved")]

\* the code after `await this.connection.sendCommand(...)` of cd()
cdAfter(st, i) ==
  [st EXCEPT !.cmds[i].cont = NoCont,
             !.op = settleOp(@, "cd", 0, st.cmds[i].state)]

RECURSIVE digitsEnd(_, _)
\* the position after the run of digits of s that starts at position p
digitsEnd(s, p) ==
  IF p <= Len(s) /\ s[p] \in Digits THEN digitsEnd(s, p + 1) ELSE p

RECURSIVE groupsAt(_, _, _)
\* (\d+),(\d+),... with k groups at position p of s: <<the groups, the position
\* after them>>, or <<>> when s does not match there
groupsAt(s, p, k) ==
  LET e == digitsEnd(s, p)
      r == groupsAt(s, e + 1, k - 1)
  IN  IF e = p THEN <<>>
      ELSE IF k = 1 THEN <<<<SubSeq(s, p, e - 1)>>, e>>
      ELSE IF e <= Len(s) /\ s[e] = "," /\ r # <<>>
      THEN <<<<SubSeq(s, p, e - 1)>> \o r[1], r[2]>>
      ELSE <<>>

\* the match of \((\d+),(\d+),(\d+),(\d+),(\d+),(\d+)\) at position p of s
pasvAt(s, p) ==
  LET r == groupsAt(s, p + 1, 6)
  IN  IF s[p] = "(" /\ r # <<>> /\ r[2] <= Len(s) /\ s[r[2]] = ")"
      THEN r[1] ELSE <<>>

\* message.match(/\((\d+),(\d+),(\d+),(\d+),(\d+),(\d+)\)/): the groups of the
\* leftmost match, <<>> for null
pasvMatch(message) ==
  IF \E p \in 1..Len(message) : pasvAt(message, p) # <<>>
  THEN pasvAt(message, CHOOSE p \in 1..Len(message) :
                         /\ pasvAt(message, p) # <<>>
                         /\ \A q \in 1..(p - 1) : pasvAt(message, q) = <<>>)
  ELSE <<>>

\* enterPassiveMode taking the fifth number as the low byte of the port
enterPassiveModeLowFirst(message) ==
  LET match == pasvMatch(message)
  IN  IF match = <<>> THEN <<>>
      ELSE [host |-> match[1] \o <<".">> \o match[2] \o <<".">> \o match[3]
                     \o <<".">> \o match[4],
            port |-> parseInt(match[5]) + 256 * parseInt(match[6])]

\* the code after `await this.sendCommand('PASV')` of enterPassiveMode(): the
\* endpoint, or <<>> when it throws
enterPassiveMode(message) ==
  LET match == pasvMatch(message)
  IN  IF match = <<>> THEN <<>>
      ELSE [host |-> match[1] \o <<".">> \o match[2] \o <<".">> \o match[3]
                     \o <<".">> \o match[4],
            port |-> parseInt(match[5]) * 256 + parseInt(match[6])]

\* the code after `await this.connection.enterPassiveMode()` of upload(): the
\* promise of the transfer and its data socket at the endpoint, <<>> when
\* enterPassiveMode() has thrown
uploadTo(st, k, endpoint) ==
  IF endpoint = <<>>
  THEN [st EXCEPT !.op = settleOp(@, k.xfer, 0, "rejected")]
  ELSE [st EXCEPT
          !.xfers = Append(@, [kind |-> k.xfer, state |-> "pending",
                               dsock |-> "connecting",
                               endpoint |-> endpoint, path |-> k.path,
                               data |-> k.data, sent |-> <<>>,
                               cmd |-> FALSE, chunks |-> <<>>, timer |-> FALSE,
                               seen400 |-> FALSE, arrived |-> <<>>,
                               result |-> <<>>]),
          !.op = [@ EXCEPT !.id = Len(st.xfers) + 1]]

\* upload, download and list after `await enterPassiveMode()`
uploadAfterPasv(st, i) ==
  uploadTo([st EXCEPT !.cmds[i].cont = NoCont], st.cmds[i].cont,
           IF st.cmds[i].state = "resolved"
           THEN enterPassiveMode(st.cmds[i].result.message) ELSE <<>>)

\* .catch(reject) of the transfer command of the transfer t
storCatch(st, i) ==
  LET s0 == [st EXCEPT !.cmds[i].cont = NoCont]
  IN  IF st.cmds[i].state = "rejected"
      THEN settleXfer(s0, st.cmds[i].cont.xfer, "rejected")
      ELSE s0

\* the transfer command of upload, download and list
transferCommand(kind, path) ==
  CASE kind = "upload" -> STOR_ \o path
    [] kind = "download" -> RETR_ \o path
    [] OTHER -> LIST_ \o path

\* the callback of net.createConnection without the write of upload
dataConnectIdle(st, t) ==
  [sendCommand(st, transferCommand(st.xfers[t].kind, st.xfers[t].path), TRUE,
               [kind |-> "stor", xfer |-> t])
     EXCEPT !.xfers[t].dsock = "open", !.xfers[t].cmd = st.connected]

\* the callback of net.createConnection of upload, download and list:
\* upload writes its data and ends the data socket
dataConnect(st, t) ==
  IF st.xfers[t].kind = "upload"
  THEN [dataConnectIdle(st, t) EXCEPT !.xfers[t].dsock = "ended",
                                      !.xfers[t].sent = st.xfers[t].data]
  ELSE dataConnectIdle(st, t)

\* a 'data' handler of the data socket that keeps the last chunk only
dataDataLast(st, t, chunk) == [st EXCEPT !.xfers[t].chunks = <<chunk>>]

\* the 'data' handler of the data socket of download and list
dataData(st, t, chunk) == [st EXCEPT !.xfers[t].chunks = Append(@, chunk)]

\* the 'close' handler of the data socket subscribing no finalHandler
dataCloseUnheard(st, t) ==
  [st EXCEPT !.xfers[t].dsock = "closed", !.xfers[t].timer = TRUE]

\* the 'close' handler of the data socket of upload, download and list
dataClose(st, t) ==
  [st EXCEPT !.xfers[t].dsock = "closed",
             !.xfers[t].timer = TRUE,
             !.listeners = Append(@, [kind |-> "final", id |-> t])]

\* the timer of the 'close' handler: 5 s in upload and download, 3 s in list
fallback(st, t) ==
  IF st.xfers[t].kind = "download" /\ Len(st.xfers[t].chunks) = 0
  THEN [st EXCEPT !.xfers[t].timer = FALSE,
                  !.listeners = Without(@, [kind |-> "final", id |-> t])]
  ELSE settleXfer([st EXCEPT !.xfers[t].timer = FALSE,
                             !.listeners =
                               Without(@, [kind |-> "final", id |-> t])],
                  t, "resolved")

\* err.message of the error a sendCommand call is rejected with
errorMessage(result) ==
  CASE result.kind = "ftperror" ->
         <<"F", "T", "P", " ", "E", "r", "r", "o", "r", " ">> \o toString(result.code) \o <<":", " ">> \o result.message
    [] result.kind = "timeout" -> <<"C", "o", "m", "m", "a", "n", "d", " ", "t", "i", "m", "e", "o", "u", "t", ":", " ">> \o result.message
    [] result.kind = "notconnected" -> <<"N", "o", "t", " ", "c", "o", "n", "n", "e", "c", "t", "e", "d">>
    [] OTHER -> <<>>

RECURSIVE ensureReturn(_, _, _)
\* ensureDir returns or throws to the code that awaits it: uploadFile goes
\* on to upload, an ensureDir call that has ensured its parent goes on to
\* mkdir, the caller's await settles
ensureReturn(st, stack, how) ==
  IF stack = <<>> THEN [st EXCEPT !.op = settleOp(@, "ensureDir", 0, how)]
  ELSE IF Head(stack).kind = "uploadFile"
  THEN IF how = "resolved"
       THEN sendCommand(st, PASV, FALSE,
                        [kind |-> "pasv", xfer |-> "upload",
                         path |-> Head(stack).path, data |-> Head(stack).data])
       ELSE [st EXCEPT !.op = settleOp(@, "upload", 0, how)]
  ELSE IF how = "resolved"
  THEN sendCommand(st, MKD_ \o Head(stack).path, FALSE,
                   [kind |-> "mkd", path |-> Head(stack).path,
                    stack |-> Tail(stack)])
  ELSE ensureReturn(st, Tail(stack), how)

\* ensureDir(dirPath, recursive) up to its await of cd(normalized), stack being
\* the ensureDir calls that await this one, innermost first
ensureDir(st, dirPath, recursive, stack) ==
  LET normalized == normalizePath(dirPath)
  IN  IF normalized = <<"/">> \/ normalized = <<".">>
      THEN ensureReturn(st, stack, "resolved")
      ELSE sendCommand(st, CWD_ \o normalized, FALSE,
                       [kind |-> "probe", path |-> normalized,
                        recursive |-> recursive, stack |-> stack])

\* ensureDir after its await of cd(normalized), never ensuring the parent
ensureAfterCdNoParent(st, i) ==
  LET k == st.cmds[i].cont
      s0 == [st EXCEPT !.cmds[i].cont = NoCont]
  IN  IF st.cmds[i].state = "resolved"
      THEN ensureReturn(s0, k.stack, "resolved")
      ELSE sendCommand(s0, MKD_ \o k.path, FALSE,
                       [kind |-> "mkd", path |-> k.path, stack |-> k.stack])

\* ensureDir after its await of cd(normalized): done when the directory is
\* there, else the parent first when recursive, then mkdir(normalized)
ensureAfterCd(st, i) ==
  LET k == st.cmds[i].cont
      s0 == [st EXCEPT !.cmds[i].cont = NoCont]
      cut == substring(k.path, 0, lastIndexOf(k.path, "/"))
      parentDir == IF cut = <<>> THEN <<"/">> ELSE cut
  IN  IF st.cmds[i].state = "resolved"
      THEN ensureReturn(s0, k.stack, "resolved")
      ELSE IF k.recursive /\ parentDir # <<"/">> /\ parentDir # <<".">>
      THEN ensureDir(s0, parentDir, TRUE, <<[kind |-> "ensureDir", path |-> k.path]>> \o k.stack)
      ELSE sendCommand(s0, MKD_ \o k.path, FALSE,
                       [kind |-> "mkd", path |-> k.path, stack |-> k.stack])

\* ensureDir after its await of mkdir(normalized), with its catch block
ensureAfterMkd(st, i) ==
  LET s0 == [st EXCEPT !.cmds[i].cont = NoCont]
      message == errorMessage(st.cmds[i].result)
  IN  IF /\ st.cmds[i].state = "rejected"
         /\ ~includes(message, <<"5", "5", "0">>)
         /\ ~includes(message, <<"e", "x", "i", "s", "t", "s">>)
      THEN ensureReturn(s0, st.cmds[i].cont.stack, "rejected")
      ELSE ensureReturn(s0, st.cmds[i].cont.stack, "resolved")

\* exists(path) letting the errors of size(path) through, but for a 550
existsAfterSizeThrows(st, i) ==
  [st EXCEPT
     !.cmds[i].cont = NoCont,
     !.op = IF @.kind = "exists" /\ @.state = "pending"
            THEN IF st.cmds[i].state = "resolved" \/ st.cmds[i].result.code = 550
                 THEN [@ EXCEPT !.state = "resolved",
                                !.value = st.cmds[i].state = "resolved"]
                 ELSE [@ EXCEPT !.state = "rejected"]
            ELSE @]

\* exists(path) after `await this.size(path)`: true, or false from the catch
\* block
existsAfterSize(st, i) ==
  [st EXCEPT
     !.cmds[i].cont = NoCont,
     !.op = IF @.kind = "exists" /\ @.state = "pending"
            THEN [@ EXCEPT !.state = "resolved",
                           !.value = st.cmds[i].state = "resolved"]
            ELSE @]

\* uploadFile(data, remotePath, ensureDir), ensureParentDir included
uploadFile(st, data, remotePath, ensure) ==
  LET parentDir == getParentDir(remotePath)
      awaiting == <<[kind |-> "uploadFile", path |-> remotePath,
                     data |-> data]>>
  IN  IF ensure /\ parentDir # <<>> /\ parentDir # <<".">>
         /\ parentDir # <<"/">>
      THEN ensureDir(st, parentDir, TRUE, awaiting)
      ELSE ensureReturn(st, awaiting, "resolved")

\* the continuation of the settled sendCommand call i
resume(st, i) ==
  LET kind == st.cmds[i].cont.kind
  IN  CASE kind = "auth" -> authenticate(st, i)
        [] kind = "quit" -> closeAfterQuit(st, i)
        [] kind = "cd" -> cdAfter(st, i)
        [] kind = "pasv" -> uploadAfterPasv(st, i)
        [] kind = "stor" -> storCatch(st, i)
        [] kind = "probe" -> ensureAfterCd(st, i)
        [] kind = "mkd" -> ensureAfterMkd(st, i)
        [] kind = "size" -> existsAfterSize(st, i)
        [] OTHER -> st

RECURSIVE drain(_)
\* the microtask queue runs until it is empty
drain(st) ==
  IF st.mq = <<>> THEN st
  ELSE drain(resume([st EXCEPT !.mq = Tail(@)], Head(st.mq)))

\* the record of a promise that had settled before the current macrotask: its
\* continuation has run and nothing refers to it any more
Done == [command |-> <<>>, allowPreliminary |-> FALSE, state |-> "done",
         result |-> NoResult, timer |-> FALSE, cont |-> NoCont]

forget(old, new) ==
  [i \in DOMAIN new |->
     IF i <= Len(old) /\ old[i].state # "pending" THEN Done ELSE new[i]]

\* the record of a transfer that was over before the current macrotask: its
\* promise settled, its data socket closed, its finalHandler unsubscribed
DoneXfer == [kind |-> "done", state |-> "done", dsock |-> "closed",
             endpoint |-> <<>>, path |-> <<>>, data |-> <<>>, sent |-> <<>>,
             cmd |-> FALSE, chunks |-> <<>>, timer |-> FALSE, seen400 |-> FALSE,
             arrived |-> <<>>, result |-> <<>>]

forgetXfers(old, ls, new) ==
  [t \in DOMAIN new |->
     IF /\ t <= Len(old)
        /\ old[t].state # "pending"
        /\ old[t].dsock = "closed"
        /\ ~Subscribed(ls, [kind |-> "final", id |-> t])
     THEN DoneXfer ELSE new[t]]

\* the state after a macrotask that started in st, in a run of at most run.max
\* sendCommand calls
Becomes(st, run) ==
  \E s \in {drain(st)} :
      /\ Len(s.cmds) <= run.max
      /\ emitted' = IF run.keep THEN emitted \o s.emitted
                     ELSE IF run.log THEN s.emitted ELSE <<>>
      /\ received' = IF run.keep THEN s.received ELSE <<>>
      /\ server' = s.server
      /\ connected' = s.connected
      /\ authenticated' = s.authenticated
      /\ commandCount' = s.commandCount
      /\ lastCommand' = s.lastCommand
      /\ buffer' = s.buffer
      /\ socket' = s.socket
      /\ written' = s.written
      /\ cmds' = forget(cmds, s.cmds)
      /\ listeners' = s.listeners
      /\ conns' = s.conns
      /\ xfers' = forgetXfers(xfers, listeners, s.xfers)
      /\ op' = s.op

(***************************************************************************)
(* Actions                                                                 *)
(***************************************************************************)
Idle == [kind |-> "none", id |-> 0, state |-> "idle"]
Started(kind) == [kind |-> kind, id |-> 0, state |-> "pending"]

\* new FTPClient()
Init ==
  /\ connected = FALSE
  /\ authenticated = FALSE
  /\ commandCount = 0
  /\ lastCommand = <<>>
  /\ buffer = <<>>
  /\ socket = "none"
  /\ written = <<>>
  /\ cmds = <<>>
  /\ listeners = <<>>
  /\ conns = <<>>
  /\ xfers = <<>>
  /\ op = Idle
  /\ emitted = <<>>
  /\ received = <<>>
  /\ server = [served |-> 0, dirs |-> {<<"/">>}]

\* the caller awaits each public operation before it starts the next
CallerFree == op.state # "pending"

\* connect(options), called when no control socket is alive
Connect(run) ==
  /\ CallerFree
  /\ socket \in {"none", "closed"}
  /\ Len(conns) < run.connects
  /\ \E user \in Users, password \in Passwords :
       Becomes([State EXCEPT
         !.socket = "connecting",
         !.conns = Append(@, [state |-> "pending", error |-> NoResult,
                              user |-> user,
                              password |-> password]),
         !.op = [Started("connect") EXCEPT !.id = Len(conns) + 1]], run)

\* the callback of net.createConnection of connect()
SocketConnect(run) ==
  /\ socket = "connecting"
  /\ Becomes([State EXCEPT !.socket = "open", !.connected = TRUE], run)

\* the 'data' event of the control socket
SocketData(chunks, run) ==
  /\ socket \in {"open", "ended"}
  /\ \E data \in chunks :
       /\ run.keep => Len(received) + Len(data) <= MaxStream
       /\ Becomes(dataHandler([State EXCEPT !.received = @ \o data],
                              Len(conns), data), run)

\* the 'error' event of the control socket
SocketError(run) ==
  /\ socket \in {"connecting", "open", "ended"}
  /\ Becomes(settleConn([State EXCEPT !.socket = "failed"], Len(conns),
                        "rejected", SocketFailed), run)

\* the 'close' event of the control socket with a handler that leaves the
\* flags as they are
SocketCloseKeepsFlags(run) ==
  /\ socket \in {"open", "ended", "failed"}
  /\ Becomes([State EXCEPT !.socket = "closed"], run)

\* the 'close' event of the control socket
SocketClose(run) ==
  /\ socket \in {"open", "ended", "failed"}
  /\ Becomes([State EXCEPT !.socket = "closed", !.connected = FALSE,
                           !.authenticated = FALSE], run)

\* the 10 s timer of connect(), were it cleared once the transport connects
ConnectTimeoutUntilConnected(run) ==
  \E c \in 1..Len(conns) :
    /\ conns[c].state = "pending"
    /\ socket = "connecting"
    /\ Becomes(settleConn(State, c, "rejected", ConnectionTimeout), run)

\* the 10 s timer of connect()
ConnectTimeout(run) ==
  \E c \in 1..Len(conns) :
    /\ conns[c].state = "pending"
    /\ Becomes(settleConn(State, c, "rejected", ConnectionTimeout), run)

\* the timer of a sendCommand call fires
CommandTimeout(run) ==
  \E i \in 1..Len(cmds) :
    /\ cmds[i].timer
    /\ Becomes(commandTimeout(State, i), run)

\* cd(path)
Cd(run) ==
  /\ CallerFree
  /\ \E path \in Paths :
       Becomes(sendCommand([State EXCEPT !.op = Started("cd")],
                           CWD_ \o path, FALSE, [kind |-> "cd"]), run)

\* close()
Close(run) ==
  /\ CallerFree
  /\ IF connected
     THEN Becomes(sendCommand([State EXCEPT !.op = Started("close")],
                              QUIT, FALSE, [kind |-> "quit"]), run)
     ELSE Becomes([State EXCEPT !.op = [Started("close") EXCEPT
                                          !.state = "resolved"]], run)

\* upload(data, remotePath)
Upload(run) ==
  /\ CallerFree
  /\ \E data \in Payloads, path \in Paths :
       IF data = <<>>
       THEN Becomes([State EXCEPT !.op = [Started("upload") EXCEPT
                                            !.state = "rejected"]], run)
       ELSE Becomes(sendCommand([State EXCEPT !.op = Started("upload")],
                                PASV, FALSE,
                                [kind |-> "pasv", xfer |-> "upload",
                                 path |-> path, data |-> data]), run)

\* download(remotePath)
Download(run) ==
  /\ CallerFree
  /\ \E path \in Paths :
       Becomes(sendCommand([State EXCEPT !.op = Started("download")],
                           PASV, FALSE,
                           [kind |-> "pasv", xfer |-> "download",
                            path |-> path, data |-> <<>>]), run)

\* list(path)
List(run) ==
  /\ CallerFree
  /\ \E path \in Paths :
       Becomes(sendCommand([State EXCEPT !.op = Started("list")],
                           PASV, FALSE,
                           [kind |-> "pasv", xfer |-> "list",
                            path |-> path, data |-> <<>>]), run)

\* the data socket of a transfer connects
DataConnect(run) ==
  \E t \in 1..Len(xfers) :
    /\ xfers[t].dsock = "connecting"
    /\ Becomes(dataConnect(State, t), run)

\* the 'data' event of the data socket of a download or a list
DataData(run) ==
  \E t \in 1..Len(xfers) :
    /\ xfers[t].dsock = "open"
    /\ Len(xfers[t].chunks) < run.chunks
    /\ \E chunk \in run.pieces :
         Becomes(dataData([State EXCEPT !.xfers[t].arrived = Append(@, chunk)],
                          t, chunk), run)

\* the 'error' event of a data socket
DataError(run) ==
  \E t \in 1..Len(xfers) :
    /\ xfers[t].dsock \in {"connecting", "open", "ended"}
    /\ Becomes(settleXfer([State EXCEPT !.xfers[t].dsock = "failed"], t,
                          "rejected"), run)

\* the 'close' event of a data socket
DataClose(run) ==
  \E t \in 1..Len(xfers) :
    /\ xfers[t].dsock \in {"open", "ended", "failed"}
    /\ Becomes(dataClose(State, t), run)

\* the timer set when the data socket closed fires
Fallback(run) ==
  \E t \in 1..Len(xfers) :
    /\ xfers[t].timer
    /\ Becomes(fallback(State, t), run)

\* ensureDir(dirPath, recursive): a first call, or the call that has just
\* resolved made once more
EnsureDir(run) ==
  /\ CallerFree
  /\ \E dirPath \in DirPaths, recursive \in BOOLEAN, again \in BOOLEAN :
       /\ again => /\ op.kind = "ensureDir"
                   /\ op.state = "resolved"
                   /\ op.dirPath = dirPath
                   /\ op.recursive = recursive
       /\ Becomes(ensureDir([State EXCEPT
                               !.op = [kind |-> "ensureDir", id |-> 0,
                                       state |-> "pending",
                                       dirPath |-> dirPath,
                                       recursive |-> recursive,
                                       again |-> again,
                                       base |-> Len(written)]],
                            dirPath, recursive, <<>>), run)

\* FTPClient.upload(data, remotePath, ensureDir)
UploadEnsuring(run) ==
  /\ CallerFree
  /\ \E data \in Payloads, remotePath \in FileTargets, ensure \in BOOLEAN :
       \E o \in {[kind |-> "upload", id |-> 0, state |-> "pending",
                   entry |-> "upload", remotePath |-> remotePath,
                   ensureDir |-> ensure, base |-> Len(written)]} :
         IF data = <<>>
         THEN Becomes([State EXCEPT !.op = [o EXCEPT !.state = "rejected"]],
                      run)
         ELSE Becomes(sendCommand([State EXCEPT !.op = o], PASV, FALSE,
                                  [kind |-> "pasv", xfer |-> "upload",
                                   path |-> remotePath, data |-> data]), run)

\* FTPClient.uploadFile(data, remotePath, ensureDir)
UploadFile(run) ==
  /\ CallerFree
  /\ \E data \in Payloads, remotePath \in FileTargets, ensure \in BOOLEAN :
       Becomes(uploadFile([State EXCEPT
                             !.op = [kind |-> "upload", id |-> 0,
                                     state |-> "pending",
                                     entry |-> "uploadFile",
                                     remotePath |-> remotePath,
                                     ensureDir |-> ensure,
                                     base |-> Len(written)]],
                          data, remotePath, ensure), run)

\* exists(path)
Exists(run) ==
  /\ CallerFree
  /\ \E path \in FilePaths :
       Becomes(sendCommand([State EXCEPT
                              !.op = [kind |-> "exists", id |-> 0,
                                      state |-> "pending", path |-> path,
                                      value |-> <<>>]],
                           SIZE_ \o path, FALSE, [kind |-> "size"]), run)

\* the files on the server
ServerFiles == {<<"/", "f">>}

\* what the server does with a command and what it answers
serverReply(dirs, command) ==
  LET path == substringFrom(command, 4)
  IN  CASE startsWith(command, CWD_) ->
             {[line |-> IF path \in dirs THEN Line250 ELSE Line550,
               dirs |-> dirs]}
        [] startsWith(command, MKD_) ->
             IF path \in dirs
             THEN {[line |-> Line550Exists, dirs |-> dirs]}
             ELSE IF getParentDir(path) \notin dirs
             THEN {[line |-> Line550, dirs |-> dirs]}
             ELSE {[line |-> Line257, dirs |-> dirs \cup {path}],
                   [line |-> Line550Denied, dirs |-> dirs]}
        [] startsWith(command, SIZE_) ->
             {[line |-> IF substringFrom(command, 5) \in ServerFiles
                        THEN Line213 ELSE Line550,
               dirs |-> dirs]}
        [] OTHER -> {[line |-> Line500, dirs |-> dirs]}

\* the server answers the next command it has been sent, and the answer
\* arrives
Serve(run) ==
  /\ socket \in {"open", "ended"}
  /\ server.served < Len(written)
  /\ \E answer \in serverReply(server.dirs,
                                SubSeq(written[server.served + 1], 1,
                                       Len(written[server.served + 1]) - 2)) :
       Becomes(dataHandler([State EXCEPT
                              !.server = [served |-> server.served + 1,
                                          dirs |-> answer.dirs]],
                           Len(conns), answer.line \o CRLF), run)

\* sendCommand(command, allowPreliminary), called on the connection itself
SendCommand(run) ==
  \E command \in {CWD_ \o path : path \in Paths}, allowPreliminary \in BOOLEAN :
    Becomes(sendCommand(State, command, allowPreliminary, NoCont), run)

\* FTPClient.getStats()
getStats ==
  [connected |-> connected, authenticated |-> authenticated,
   commandCount |-> commandCount, lastCommand |-> lastCommand]

(***************************************************************************)
(* Specifications                                                          *)
(***************************************************************************)
\* a client that connects and logs in
Login ==
  [max |-> MaxCommands, log |-> FALSE, keep |-> FALSE,
   connects |-> MaxConnects, chunks |-> MaxDataChunks, pieces |-> {Chunk1}]

Next ==
  \/ Connect(Login)
  \/ SocketConnect(Login)
  \/ SocketData(LoginChunks, Login)
  \/ SocketError(Login)
  \/ SocketClose(Login)
  \/ ConnectTimeout(Login)
  \/ CommandTimeout(Login)
  \/ Cd(Login)
  \/ Close(Login)

Spec == Init /\ [][Next]_vars

\* connect() alone, the lines of each macrotask recorded
Greeting ==
  [max |-> MaxCommands, log |-> TRUE, keep |-> FALSE,
   connects |-> MaxConnects, chunks |-> MaxDataChunks, pieces |-> {Chunk1}]
HandshakeNext ==
  \/ Connect(Greeting)
  \/ SocketConnect(Greeting)
  \/ SocketData(HandshakeChunks, Greeting)
  \/ SocketError(Greeting)
  \/ SocketClose(Greeting)
  \/ ConnectTimeout(Greeting)
  \/ CommandTimeout(Greeting)
Handshake == Init /\ [][HandshakeNext]_vars

\* connect() alone, in time: the timer that connect() has set fires
Timed == Handshake /\ WF_vars(ConnectTimeout(Greeting))

\* the state after connect() has resolved: greeting, USER and PASS answered
LoggedIn ==
  /\ connected = TRUE
  /\ authenticated = TRUE
  /\ commandCount = 2
  /\ \E user \in Users, password \in Passwords :
       /\ lastCommand = PASS_ \o password
       /\ written = <<USER_ \o user \o CRLF, PASS_ \o password \o CRLF>>
       /\ conns = <<[state |-> "resolved", error |-> NoResult, user |-> user,
                     password |-> password]>>
  /\ buffer = <<>>
  /\ socket = "open"
  /\ cmds = <<Done, Done>>
  /\ listeners = <<>>
  /\ xfers = <<>>
  /\ op = [kind |-> "connect", id |-> 1, state |-> "resolved"]
  /\ emitted = <<>>
  /\ received = <<>>
  /\ server = [served |-> 2, dirs |-> {<<"/">>}]

\* the public operations of an authenticated session: the two sendCommand
\* calls of the login and MaxCommands more
InSession ==
  [max |-> 2 + MaxCommands, log |-> FALSE, keep |-> FALSE,
   connects |-> 1, chunks |-> MaxDataChunks, pieces |-> {Chunk1}]

SessionNext ==
  \/ SocketData(SessionChunks, InSession)
  \/ SocketError(InSession)
  \/ SocketClose(InSession)
  \/ CommandTimeout(InSession)
  \/ Cd(InSession)
  \/ Close(InSession)
  \/ Upload(InSession)
  \/ DataConnect(InSession)
  \/ DataError(InSession)
  \/ DataClose(InSession)
  \/ Fallback(InSession)

Session == LoggedIn /\ [][SessionNext]_vars

\* sendCommand on its own in an authenticated session: calls of either kind,
\* the lines of the server one at a time, each recorded
\* the transfers of an authenticated session, the lines of each macrotask
\* recorded
Moving ==
  [max |-> 2 + MaxCommands, log |-> TRUE, keep |-> FALSE,
   connects |-> 1, chunks |-> MaxDataChunks, pieces |-> {Chunk1}]
\* the lines the server sends around a transfer
TransferLines == {Line150, Line226, Line227, Line530}
TransferChunks == {line \o CRLF : line \in TransferLines}
TransferNext ==
  \/ Upload(Moving)
  \/ Download(Moving)
  \/ List(Moving)
  \/ DataConnect(Moving)
  \/ DataData(Moving)
  \/ DataError(Moving)
  \/ DataClose(Moving)
  \/ Fallback(Moving)
  \/ SocketData(TransferChunks, Moving)
  \/ SocketClose(Moving)
  \/ CommandTimeout(Moving)
Transfers == LoggedIn /\ [][TransferNext]_vars

\* a session that is dropped or closed, and connect() called again
Again ==
  [max |-> 2 + MaxCommands, log |-> FALSE, keep |-> FALSE,
   connects |-> 1 + MaxConnects, chunks |-> MaxDataChunks, pieces |-> {Chunk1}]
RedialChunks == {line \o CRLF : line \in {Line220, Line230, Line530}}
RedialNext ==
  \/ SocketClose(Again)
  \/ SocketError(Again)
  \/ Close(Again)
  \/ Cd(Again)
  \/ Upload(Again)
  \/ Download(Again)
  \/ List(Again)
  \/ Connect(Again)
  \/ SocketConnect(Again)
  \/ SocketData(RedialChunks, Again)
  \/ ConnectTimeout(Again)
  \/ CommandTimeout(Again)
Redial == LoggedIn /\ [][RedialNext]_vars

Direct ==
  [max |-> 2 + MaxCommands, log |-> TRUE, keep |-> FALSE,
   connects |-> 1, chunks |-> MaxDataChunks, pieces |-> {Chunk1}]
DispatchChunks == {line \o CRLF : line \in DispatchLines}

DispatchNext ==
  \/ SendCommand(Direct)
  \/ SocketData(DispatchChunks, Direct)
  \/ CommandTimeout(Direct)
  \/ SocketClose(Direct)

Dispatch == LoggedIn /\ [][DispatchNext]_vars

\* the transfers up to their data connection, PASV answered in several ways
PassiveLines ==
  {PasvLine(t) : t \in PasvTuples} \cup {Line227None, Line227Five, Line530}
PassiveChunks == {line \o CRLF : line \in PassiveLines}
PassiveNext ==
  \/ Upload(Moving)
  \/ Download(Moving)
  \/ List(Moving)
  \/ DataConnect(Moving)
  \/ SocketData(PassiveChunks, Moving)
  \/ CommandTimeout(Moving)
Passive == LoggedIn /\ [][PassiveNext]_vars

\* ensureDir against a server that keeps the directories it creates
Making ==
  [max |-> 2 + MaxCommands + 3, log |-> FALSE, keep |-> FALSE,
   connects |-> 1, chunks |-> MaxDataChunks, pieces |-> {Chunk1}]
DirsNext ==
  \/ EnsureDir(Making)
  \/ Serve(Making)
  \/ CommandTimeout(Making)
  \/ SocketClose(Making)
Dirs == LoggedIn /\ [][DirsNext]_vars

\* exists against that server
ProbingNext ==
  \/ Exists(InSession)
  \/ Serve(InSession)
  \/ CommandTimeout(InSession)
  \/ SocketClose(InSession)
Probing == LoggedIn /\ [][ProbingNext]_vars

\* ensureDir against that server when every command is answered in time
AnsweredNext ==
  \/ EnsureDir(Making)
  \/ Serve(Making)
Answered == LoggedIn /\ [][AnsweredNext]_vars

\* connect() alone, the stream of the server cut into chunks anywhere, what
\* arrives and what is emitted kept
Framed ==
  [max |-> MaxCommands, log |-> FALSE, keep |-> TRUE,
   connects |-> MaxConnects, chunks |-> MaxDataChunks, pieces |-> {Chunk1}]
FramingChunks ==
  {Line220 \o CRLF, Line220 \o <<CR>>, <<LF>> \o Line331 \o CRLF, <<LF>>,
   Line230 \o CRLF, Line220 \o CRLF \o Line331 \o CRLF, CRLF}
FramingNext ==
  \/ Connect(Framed)
  \/ SocketConnect(Framed)
  \/ SocketData(FramingChunks, Framed)
  \/ CommandTimeout(Framed)
Framing == Init /\ [][FramingNext]_vars

\* uploads and downloads answered with multi-line replies
MultilineLines == {Line227, Line150, Line226Cont, Line226, Line530Cont}
MultilineChunks == {line \o CRLF : line \in MultilineLines}
MultilineNext ==
  \/ Upload(Moving)
  \/ Download(Moving)
  \/ DataConnect(Moving)
  \/ DataData(Moving)
  \/ DataClose(Moving)
  \/ Fallback(Moving)
  \/ SocketData(MultilineChunks, Moving)
Multiline == LoggedIn /\ [][MultilineNext]_vars

\* uploads that may ensure the parent directory first
Filed ==
  [max |-> 2 + 4, log |-> TRUE, keep |-> FALSE,
   connects |-> 1, chunks |-> MaxDataChunks, pieces |-> {Chunk1}]
FilingLines == {Line250, Line550, Line530, Line227}
FilingChunks == {line \o CRLF : line \in FilingLines}
FilingNext ==
  \/ UploadEnsuring(Filed)
  \/ UploadFile(Filed)
  \/ DataConnect(Filed)
  \/ DataClose(Filed)
  \/ Fallback(Filed)
  \/ SocketData(FilingChunks, Filed)
  \/ CommandTimeout(Filed)
Filing == LoggedIn /\ [][FilingNext]_vars

\* downloads on their own: two of them, the file of each arriving in up to
\* 1 + MaxDataChunks chunks
Fetch ==
  [max |-> 2 + 4, log |-> FALSE, keep |-> FALSE,
   connects |-> 1, chunks |-> 1 + MaxDataChunks, pieces |-> {Chunk1, Chunk2}]
FetchChunks == {line \o CRLF : line \in {Line227, Line150, Line226, Line530}}
FetchNext ==
  \/ Download(Fetch)
  \/ DataConnect(Fetch)
  \/ DataData(Fetch)
  \/ DataClose(Fetch)
  \/ Fallback(Fetch)
  \/ SocketData(FetchChunks, Fetch)
Fetching == LoggedIn /\ [][FetchNext]_vars

(***************************************************************************)
(* The claims                                                              *)
(***************************************************************************)
\* the sendCommand calls that are pending
Pending == {i \in 1..Len(cmds) : cmds[i].state = "pending"}

\* the sendCommand calls that were pending when the last macrotask began, or
\* that it has made
Live == {i \in 1..Len(cmds) : cmds[i].state # "done"}

\* a line that starts with a three-digit code and has a 4th character
IsReply(line) == Len(line) >= 4 /\ \A j \in 1..3 : line[j] \in Digits
\* its code
Code3(line) ==
  100 * DigitVal(line[1]) + 10 * DigitVal(line[2]) + DigitVal(line[3])
\* the last line of a reply
IsFinal(line) == IsReply(line) /\ line[4] = " "
\* the last macrotask has emitted exactly one line, a final one of a code in S
EmittedFinal(lines, S) ==
  Len(lines) = 1 /\ IsFinal(lines[1]) /\ Code3(lines[1]) \in S

\* C1: when the caller awaits each public operation before it starts the next,
\* at most one sendCommand call is pending at any time.
C1_AtMostOnePending == Cardinality(Pending) <= 1

\* C2: a sendCommand call made while another call is pending writes nothing to
\* the control socket as long as that call stays pending.
C2_NothingWrittenWhilePending ==
  [][(\E i \in 1..Len(cmds) :
        cmds[i].state = "pending" /\ cmds'[i].state = "pending")
     => written' = written]_vars

\* C3: a sendCommand call that has not settled has its timeout armed, whatever
\* lines have arrived, so that it fails when no final reply comes in time.
C3_PendingHasDeadline ==
  \A i \in 1..Len(cmds) : cmds[i].state = "pending" => cmds[i].timer

\* C4: a final reply line that is no allowed preliminary reply settles every
\* call it is delivered to: the call resolves with {code, message, raw} when
\* the code is in [200,400), it rejects with the code and the message when not,
\* and its subscription is removed.
C4_FinalReplySettles ==
  \A i \in Live :
    (EmittedFinal(emitted, 0..999)
       /\ ~(cmds[i].allowPreliminary /\ Code3(emitted[1]) \in 100..199)) =>
      /\ ~Subscribed(listeners, [kind |-> "cmd", id |-> i])
      /\ cmds[i].result.code = Code3(emitted[1])
      /\ cmds[i].result.message = SubSeq(emitted[1], 5, Len(emitted[1]))
      /\ IF Code3(emitted[1]) \in 200..399
         THEN /\ cmds[i].state = "resolved"
              /\ cmds[i].result.kind = "reply"
              /\ cmds[i].result.raw = emitted[1]
         ELSE /\ cmds[i].state = "rejected"
              /\ cmds[i].result.kind = "ftperror"

C4_Witness ==
  /\ emitted = <<Line226>>
  /\ \E i \in Live : cmds[i].state = "resolved" /\ cmds[i].result.code = 226

\* C5: a final 1xx reply leaves a pending call with allowPreliminary pending
\* and subscribed, and rejects a pending call without it; the call it has left
\* pending resolves when the final 226 follows.
C5_PreliminaryKeepsWaiting ==
  [][\A i \in 1..Len(cmds) :
       cmds[i].state = "pending" =>
         /\ EmittedFinal(emitted', 100..199) =>
              IF cmds[i].allowPreliminary
              THEN /\ cmds'[i].state = "pending"
                   /\ Subscribed(listeners', [kind |-> "cmd", id |-> i])
              ELSE cmds'[i].state = "rejected"
         /\ (/\ cmds[i].allowPreliminary
             /\ EmittedFinal(emitted, 100..199)
             /\ EmittedFinal(emitted', {226})) =>
              cmds'[i].state = "resolved"]_vars

C5_Witness ==
  /\ emitted = <<Line150>>
  /\ \E i \in Live :
       /\ cmds[i].allowPreliminary
       /\ cmds[i].state = "pending"
       /\ ~cmds[i].timer
  /\ \E i \in Live :
       /\ ~cmds[i].allowPreliminary
       /\ cmds[i].state = "rejected"
       /\ cmds[i].result.code = 150

\* C6: a line whose 4th character is no space (a continuation line, whatever
\* its code) settles no call: every call it is delivered to stays pending and
\* subscribed.
C6_ContinuationNeverSettles ==
  \A i \in Live :
    (Len(emitted) = 1 /\ ~(Len(emitted[1]) >= 4 /\ emitted[1][4] = " ")) =>
      /\ cmds[i].state = "pending"
      /\ Subscribed(listeners, [kind |-> "cmd", id |-> i])

C6_Witness ==
  /\ emitted = <<Line530Cont>>
  /\ \E i \in Live : cmds[i].state = "pending" /\ ~cmds[i].timer

\* C7: a line shorter than 4 characters, or whose first three characters are
\* not digits, is emitted and settles no call.
C7_NoReplyNeverSettles ==
  \A i \in Live :
    (Len(emitted) = 1 /\ ~IsReply(emitted[1])) => cmds[i].state = "pending"

\* C8: a sendCommand call made while connected is false is rejected at once as
\* not connected; it writes nothing, subscribes nothing and counts nothing.
C8_NotConnectedRejects ==
  [][(~connected /\ Len(cmds') > Len(cmds)) =>
       /\ written' = written
       /\ listeners' = listeners
       /\ commandCount' = commandCount
       /\ lastCommand' = lastCommand
       /\ \A i \in (Len(cmds) + 1)..Len(cmds') :
            /\ cmds'[i].state = "rejected"
            /\ cmds'[i].result.kind = "notconnected"]_vars

C8_Witness ==
  /\ ~connected
  /\ \E i \in Live :
       /\ cmds[i].result.kind = "notconnected"
       /\ ~Subscribed(listeners, [kind |-> "cmd", id |-> i])

\* C9: the lastCommand that getStats() returns never contains the password of
\* a connect() call.
C9_LastCommandHidesPassword ==
  \A c \in 1..Len(conns) : ~includes(getStats.lastCommand, conns[c].password)

\* C10: commandCount is the number of commands written to the control socket,
\* whatever has become of them.
C10_CountsWrittenCommands == getStats.commandCount = Len(written)

C10_Witness ==
  /\ commandCount = 3
  /\ Len(cmds) = 5
  /\ \E i \in Live : cmds[i].result.kind = "notconnected"

\* the line has the three-digit code n
HasCode(line, n) == IsReply(line) /\ Code3(line) = n
\* the command lines the step writes
NewlyWritten == {written'[j] : j \in (Len(written) + 1)..Len(written')}
\* the step settles as how the call i of a command that starts with one of
\* the prefixes: the call was pending, or the step has made it
SettlesAs(i, prefixes, how) ==
  /\ i <= Len(cmds) => cmds[i].state = "pending"
  /\ \E p \in prefixes : startsWith(cmds'[i].command, p)
  /\ cmds'[i].state = how

\* C11: a step writes USER only when it has received a line of code 220, it
\* writes PASS only when it resolves a USER, and it sets authenticated only
\* when it resolves a PASS.
C11_HandshakeInOrder ==
  [][/\ (\E w \in NewlyWritten : startsWith(w, USER_)) =>
          \E k \in 1..Len(emitted') : HasCode(emitted'[k], 220)
     /\ (\E w \in NewlyWritten : startsWith(w, PASS_)) =>
          \E i \in 1..Len(cmds') : SettlesAs(i, {USER_}, "resolved")
     /\ (~authenticated /\ authenticated') =>
          \E i \in 1..Len(cmds') : SettlesAs(i, {PASS_}, "resolved")]_vars

C11_Witness ==
  /\ authenticated
  /\ emitted = <<Line230>>
  /\ \E user \in Users, password \in Passwords :
       written = <<USER_ \o user \o CRLF, PASS_ \o password \o CRLF>>

\* the exchange of connect() has been started once: one USER has been written
OneHandshake(w) ==
  Cardinality({j \in 1..Len(w) : startsWith(w[j], USER_)}) = 1

\* C12: in the exchange greeting, USER, PASS of a pending connect(), the step
\* that resolves USER writes PASS, the step that resolves PASS resolves
\* connect() with authenticated true, and a step that rejects USER or PASS
\* rejects connect() with that command's error and leaves authenticated false.
C12_ConnectFollowsHandshake ==
  [][\A i \in 1..Len(cmds) :
       (/\ cmds[i].cont.kind = "auth"
        /\ conns[cmds[i].cont.conn].state = "pending"
        /\ OneHandshake(written')) =>
         /\ SettlesAs(i, {USER_}, "resolved") =>
              \E w \in NewlyWritten : startsWith(w, PASS_)
         /\ SettlesAs(i, {PASS_}, "resolved") =>
              conns'[cmds[i].cont.conn].state = "resolved" /\ authenticated'
         /\ SettlesAs(i, {USER_, PASS_}, "rejected") =>
              /\ conns'[cmds[i].cont.conn].state = "rejected"
              /\ conns'[cmds[i].cont.conn].error = cmds'[i].result
              /\ ~authenticated']_vars

C12_Witness ==
  /\ emitted = <<Line530>>
  /\ Len(conns) = 1
  /\ conns[1].state = "rejected"
  /\ conns[1].error.kind = "ftperror"
  /\ conns[1].error.code = 530
  /\ Len(written) = 2
  /\ ~authenticated

\* a connect() call is pending
ConnectPending == \E c \in 1..Len(conns) : conns[c].state = "pending"

\* C13: every connect() call settles: however far the transport, the greeting
\* and the exchange have come, a pending connect() is rejected by its timer.
C13_ConnectSettles == ConnectPending ~> ~ConnectPending

C13_Witness ==
  /\ socket = "connecting"
  /\ Len(conns) = 1
  /\ conns[1].state = "rejected"
  /\ conns[1].error = ConnectionTimeout

\* the step is the caller's call of the public operation kind
Calls(kind) ==
  /\ CallerFree
  /\ op'.kind = kind
  /\ op' # op \/ op'.state = "pending"
\* the step ends the caller's await of the public operation kind
Returns(kind) == op.kind = kind /\ op.state = "pending" /\ op'.state # "pending"
\* the fields of the session and its control socket
session == <<connected, authenticated, commandCount, lastCommand, buffer,
             socket, written, listeners>>

\* C14: close() called on a connected session writes QUIT; when it returns it
\* has resolved and connected and authenticated are false, however QUIT has
\* settled; close() called on a session that is not connected resolves at
\* once, writes nothing and changes nothing.
C14_CloseClearsFlags ==
  [][/\ (Calls("close") /\ connected) =>
          written' = Append(written, QUIT \o CRLF) /\ op'.state = "pending"
     /\ (Calls("close") /\ ~connected) =>
          op'.state = "resolved" /\ UNCHANGED session
     /\ Returns("close") =>
          op'.state = "resolved" /\ ~connected' /\ ~authenticated']_vars

C14_Witness ==
  /\ op.kind = "close"
  /\ op.state = "resolved"
  /\ socket = "ended"
  /\ ~connected
  /\ \E i \in Live : cmds[i].command = QUIT /\ cmds[i].state = "rejected"

\* the transfers that are not yet forgotten
Transferring == {t \in 1..Len(xfers) : xfers[t].kind # "done"}

\* C16: payload is written to the data socket of an upload only once its STOR
\* command has been written to the control socket.
C16_CommandBeforePayload ==
  \A t \in Transferring :
    xfers[t].sent # <<>> =>
      \E j \in 1..Len(written) : written[j] = STOR_ \o xfers[t].path \o CRLF

\* upload, download and list
TransferKinds == {"upload", "download", "list"}
\* the line starts with the code 226 or 250
Terminal(line) ==
  /\ Len(line) >= 3
  /\ \A j \in 1..3 : line[j] \in Digits
  /\ Code3(line) \in {226, 250}

\* C17: when the data socket of a pending upload has closed and a final 226
\* or 250 is then received, the upload resolves in that step, its fallback
\* timer still armed.
C17_UploadResolvesOn226 ==
  [][\A t \in 1..Len(xfers) :
       (/\ xfers[t].kind = "upload"
        /\ xfers[t].state = "pending"
        /\ xfers[t].dsock = "closed"
        /\ xfers[t].timer
        /\ EmittedFinal(emitted', {226, 250})) =>
         /\ xfers'[t].state = "resolved"
         /\ xfers'[t].timer
         /\ op' = [kind |-> "upload", id |-> t, state |-> "resolved"]]_vars

C17_Witness ==
  /\ emitted = <<Line226>>
  /\ op.kind = "upload"
  /\ op.state = "resolved"
  /\ xfers[op.id].state = "resolved"
  /\ xfers[op.id].sent # <<>>
  /\ xfers[op.id].timer
  /\ \E i \in Live :
       /\ startsWith(cmds[i].command, STOR_)
       /\ cmds[i].state = "resolved"

\* C18: an upload, download or list call resolves only in a step before which
\* its data socket had closed and in which either a line of code 226 or 250 is
\* received or the fallback timer set at the close fires.
C18_ResolvesOnlyAfterClose ==
  [][\A kind \in TransferKinds :
       (Returns(kind) /\ op'.state = "resolved") =>
         /\ op.id \in 1..Len(xfers)
         /\ xfers[op.id].dsock = "closed"
         /\ \/ \E k \in 1..Len(emitted') : Terminal(emitted'[k])
            \/ xfers[op.id].timer /\ ~xfers'[op.id].timer]_vars

C18_Witness ==
  /\ emitted = <<>>
  /\ op.kind = "download"
  /\ op.state = "resolved"
  /\ xfers[op.id].dsock = "closed"
  /\ xfers[op.id].chunks # <<>>
  /\ ~xfers[op.id].timer

\* C19: a pending transfer whose data socket has closed has a timer armed that
\* will settle it: the fallback timer of the close, or the timeout of its
\* transfer command.
C19_ClosedTransferSettles ==
  \A t \in Transferring :
    (xfers[t].state = "pending" /\ xfers[t].dsock = "closed") =>
      \/ xfers[t].timer
      \/ \E i \in 1..Len(cmds) :
           /\ cmds[i].command = transferCommand(xfers[t].kind, xfers[t].path)
           /\ cmds[i].timer

\* C20: a transfer that has seen a final reply of a code from 400 on since
\* its command was written does not resolve.
C20_ErrorReplyRejects ==
  \A t \in Transferring : ~(xfers[t].state = "resolved" /\ xfers[t].seen400)

RECURSIVE Flat(_)
\* the bytes of a sequence of chunks, first chunk first
Flat(chunks) ==
  IF chunks = <<>> THEN <<>>
  ELSE Flat(SubSeq(chunks, 1, Len(chunks) - 1)) \o chunks[Len(chunks)]

\* C21: a download that has resolved has resolved, after the close of its data
\* socket, with the bytes of the chunks that arrived on that socket, in the
\* order of their arrival, each once and none of another transfer.
C21_DownloadIsConcatenation ==
  \A t \in 1..Len(xfers) :
    xfers[t].kind = "download" /\ xfers[t].state = "resolved"
      => /\ xfers[t].dsock = "closed"
         /\ xfers[t].result = Flat(xfers[t].arrived)

\* the second download resolves with its two chunks while the first one, which
\* the server refused, has received another chunk
C21_Witness ==
  /\ Len(xfers) = 2
  /\ xfers[2].kind = "download"
  /\ xfers[2].state = "resolved"
  /\ xfers[2].arrived = <<Chunk2, Chunk1>>
  /\ xfers[2].result = Chunk2 \o Chunk1
  /\ xfers[1].chunks = <<Chunk1>>

\* a.b.c.d
Dotted(t) ==
  toString(t[1]) \o <<".">> \o toString(t[2]) \o <<".">> \o toString(t[3])
    \o <<".">> \o toString(t[4])

\* C22: an upload, download or list call writes PASV; when PASV resolves with
\* a line that holds (a,b,c,d,p1,p2), the step opens one data socket, to host
\* a.b.c.d and port p1 * 256 + p2; when it resolves with a line without the
\* six numbers, the step opens no data socket and the call rejects.
C22_PassiveEndpoint ==
  [][/\ \A kind \in {"upload", "download", "list"} :
          Calls(kind) /\ op'.state = "pending"
            => NewlyWritten = {PASV \o CRLF}
     /\ \A i \in 1..Len(cmds) :
          /\ cmds[i].state = "pending"
          /\ cmds[i].command = PASV
          /\ cmds'[i].state = "resolved"
          => IF \E t \in PasvTuples : cmds'[i].result.raw = PasvLine(t)
             THEN \E t \in PasvTuples :
                    /\ cmds'[i].result.raw = PasvLine(t)
                    /\ Len(xfers') = Len(xfers) + 1
                    /\ xfers'[Len(xfers')].dsock = "connecting"
                    /\ xfers'[Len(xfers')].endpoint =
                         [host |-> Dotted(t), port |-> t[5] * 256 + t[6]]
             ELSE /\ Len(xfers') = Len(xfers)
                  /\ op'.state = "rejected"]_vars

\* PASV answered with (127,0,0,1,200,50): a data socket to 127.0.0.1:51250
C22_Witness ==
  /\ op.kind = "download"
  /\ op.state = "pending"
  /\ Len(xfers) = 1
  /\ xfers[1].dsock = "connecting"
  /\ xfers[1].endpoint =
       [host |-> <<"1", "2", "7", ".", "0", ".", "0", ".", "1">>,
        port |-> 51250]
  /\ cmds[Len(cmds)].command = PASV
  /\ cmds[Len(cmds)].result.raw = PasvLine(<<127, 0, 0, 1, 200, 50>>)

\* the commands written since the caller's ensureDir call began
Issued == SubSeq(written, op.base + 1, Len(written))
\* the path of a CWD or MKD command line
PathOf(w) == SubSeq(w, 5, Len(w) - 2)

\* C23: the commands of an ensureDir(p) call made right after an ensureDir(p)
\* call has resolved are the one CWD probe of p: no MKD, nothing for an
\* ancestor.
C23_SecondCallOnlyProbes ==
  op.kind = "ensureDir" /\ op.again
    => \A j \in 1..Len(Issued) :
         Issued[j] = CWD_ \o normalizePath(op.dirPath) \o CRLF

\* the error says that the directory is there already
AlreadyExists(result) ==
  result.kind = "ftperror" /\ includes(result.message, <<"e", "x", "i", "s", "t", "s">>)

\* C24: when the MKD of an ensureDir call is rejected with an error that does
\* not say the directory exists already, the ensureDir call rejects.
C24_OtherMkdFailuresRaised ==
  [][\A i \in 1..Len(cmds) :
       /\ cmds[i].state = "pending"
       /\ startsWith(cmds[i].command, MKD_)
       /\ cmds'[i].state = "rejected"
       /\ ~AlreadyExists(cmds'[i].result)
       /\ op.kind = "ensureDir"
       /\ op.state = "pending"
       => op'.state = "rejected"]_vars

\* the path a is a proper ancestor of the path b
Ancestor(a, b) ==
  /\ Len(a) < Len(b)
  /\ SubSeq(b, 1, Len(a)) = a
  /\ b[Len(a) + 1] = "/"
\* the parent of an absolute path without a trailing slash
Parent(q) ==
  LET cuts == {n \in 1..Len(q) : q[n] = "/"}
      last == CHOOSE n \in cuts : \A m \in cuts : m <= n
  IN  IF last = 1 THEN <<"/">> ELSE SubSeq(q, 1, last - 1)

\* C25: a call of ensureDir whose path normalizes to / or . writes nothing
\* and resolves at once; a call with recursive false writes commands for
\* the path itself only; in a call with recursive true, MKD of a directory is
\* written only in a step that has ended the ensuring of its parent (the CWD
\* probe of the parent resolved, or the MKD of the parent settled) unless the
\* parent is the root, and only after the MKDs of its ancestors.
C25_ParentsFirst ==
  [][op'.kind = "ensureDir" =>
       LET p == normalizePath(op'.dirPath)
       IN  /\ p \in {<<"/">>, <<".">>}
                => Len(written') = op'.base /\ op'.state = "resolved"
           /\ ~op'.recursive
                => \A j \in (op'.base + 1)..Len(written') :
                     PathOf(written'[j]) = p
           /\ op'.recursive
                => \A k \in (Len(written) + 1)..Len(written') :
                     startsWith(written'[k], MKD_)
                       => /\ \A j \in (op'.base + 1)..(k - 1) :
                               startsWith(written'[j], MKD_)
                                 => Ancestor(PathOf(written'[j]),
                                             PathOf(written'[k]))
                          /\ Parent(PathOf(written'[k])) # <<"/">>
                               => \E i \in 1..Len(cmds) :
                                    /\ cmds[i].state = "pending"
                                    /\ \/ /\ cmds[i].command = CWD_ \o
                                               Parent(PathOf(written'[k]))
                                          /\ cmds'[i].state = "resolved"
                                       \/ /\ cmds[i].command = MKD_ \o
                                               Parent(PathOf(written'[k]))
                                          /\ cmds'[i].state # "pending"]_vars

\* ensureDir('/a/b') has resolved after CWD /a/b, CWD /a, MKD /a, MKD /a/b
C25_Witness ==
  /\ op.kind = "ensureDir"
  /\ op.state = "resolved"
  /\ op.recursive
  /\ Issued = <<CWD_ \o <<"/", "a", "/", "b">> \o CRLF, CWD_ \o <<"/", "a">> \o CRLF,
                MKD_ \o <<"/", "a">> \o CRLF, MKD_ \o <<"/", "a", "/", "b">> \o CRLF>>
  /\ <<"/", "a", "/", "b">> \in server.dirs

\* C26: a call of exists(path) on a connected session writes SIZE path; the
\* call never rejects; when it returns it has resolved with a boolean, true
\* when its SIZE has resolved and false when its SIZE was answered 550.
C26_ExistsIsBoolean ==
  [][/\ Calls("exists") /\ connected
          => NewlyWritten = {SIZE_ \o op'.path \o CRLF}
     /\ op'.kind = "exists" => op'.state # "rejected"
     /\ Returns("exists")
          => /\ op'.state = "resolved"
             /\ op'.value \in BOOLEAN
             /\ \A i \in 1..Len(cmds) :
                  /\ cmds[i].state = "pending"
                  /\ cmds[i].command = SIZE_ \o op.path
                  /\ cmds'[i].state # "pending"
                  => /\ cmds'[i].state = "resolved" => op'.value = TRUE
                     /\ cmds'[i].result.code = 550 => op'.value = FALSE]_vars

\* exists('/a') has resolved with false after SIZE /a was answered 550
C26_Witness ==
  /\ op.kind = "exists"
  /\ op.state = "resolved"
  /\ op.value = FALSE
  /\ cmds[Len(cmds)].command = SIZE_ \o op.path
  /\ cmds[Len(cmds)].state = "rejected"
  /\ cmds[Len(cmds)].result.code = 550

RECURSIVE Scan(_, _, _)
\* the CRLF-terminated lines of the stream s after the lines found and the
\* characters cur of the current line, and the unterminated rest
Scan(s, cur, lines) ==
  IF s = <<>> THEN [lines |-> lines, rest |-> cur]
  ELSE IF Len(s) >= 2 /\ s[1] = CR /\ s[2] = LF
  THEN Scan(SubSeq(s, 3, Len(s)), <<>>, Append(lines, cur))
  ELSE Scan(Tail(s), Append(cur, Head(s)), lines)
\* what has arrived, as lines
Arrived == Scan(received, <<>>, <<>>)
\* a 'data' handler is suspended at an await with lines of its chunk to go
Suspended ==
  \E i \in 1..Len(cmds) :
    /\ cmds[i].cont.kind = "auth"
    /\ cmds[i].cont.rest # <<>>

\* C27: whenever no 'data' handler is suspended, the lines emitted so far are
\* the CRLF-terminated lines of what has arrived, each once and in order,
\* and buffer is the unterminated rest, wherever the chunks were cut.
C27_LinesAsArrived ==
  ~Suspended => emitted = Arrived.lines /\ buffer = Arrived.rest

RECURSIVE NonEmpty(_)
\* the lines that are not empty
NonEmpty(lines) ==
  IF lines = <<>> THEN <<>>
  ELSE IF Head(lines) = <<>> THEN NonEmpty(Tail(lines))
  ELSE <<Head(lines)>> \o NonEmpty(Tail(lines))

\* C28: the lines emitted so far are the first of the lines that have
\* arrived, in the order of their arrival: no line is emitted before a line
\* that arrived earlier, the handshake being in progress or not.
C28_ArrivalOrder ==
  /\ Len(emitted) <= Len(NonEmpty(Arrived.lines))
  /\ emitted = SubSeq(NonEmpty(Arrived.lines), 1, Len(emitted))

\* C29: a step in which lines are received settles a pending transfer only
\* when one of them is the last line of a reply: a line with a hyphen in
\* its 4th column neither resolves nor rejects the transfer.
C29_ContinuationIgnored ==
  [][\A t \in 1..Len(xfers) :
       /\ xfers[t].state = "pending"
       /\ xfers'[t].state # "pending"
       /\ emitted' # <<>>
       => \E j \in 1..Len(emitted') : IsFinal(emitted'[j])]_vars

\* the step writes PASV or STOR
StartsTransfer ==
  \E w \in NewlyWritten : startsWith(w, PASV) \/ startsWith(w, STOR_)
\* a CWD or MKD command line
ForDirectory(w) == startsWith(w, CWD_) \/ startsWith(w, MKD_)

\* C30: an upload requested with ensureDir true for a file below a
\* directory other than the root writes the CWD probe of that directory
\* first, and writes PASV and STOR only once no CWD or MKD is pending; a step
\* in which the ensuring fails writes neither PASV nor STOR; an upload
\* requested with ensureDir false writes no CWD and no MKD.
C30_EnsureBeforeTransfer ==
  [][op'.kind = "upload" =>
       LET parent == Parent(op'.remotePath)
       IN  /\ op'.ensureDir /\ parent # <<"/">> /\ StartsTransfer
                => /\ Len(written) > op'.base
                   /\ written'[op'.base + 1] = CWD_ \o parent \o CRLF
                   /\ \A i \in 1..Len(cmds') :
                        cmds'[i].state = "pending"
                          => ~ForDirectory(cmds'[i].command)
           /\ \A i \in 1..Len(cmds) :
                /\ cmds[i].state = "pending"
                /\ startsWith(cmds[i].command, MKD_)
                /\ cmds'[i].state = "rejected"
                /\ cmds'[i].result.code # 550
                => ~StartsTransfer /\ op'.state = "rejected"
           /\ ~op'.ensureDir
                => \A j \in (op'.base + 1)..Len(written') :
                     ~ForDirectory(written'[j])]_vars

\* C31: the timer callback of sendCommand changes its own call and nothing
\* else: applied in any state to any armed call it leaves the control socket,
\* connected, authenticated, the buffer, the bytes written and every other call
\* as they are and unsubscribes only its own listener. In a step in which a
\* call times out the session keeps socket, connected and authenticated, unless
\* the caller awaiting it is close() or the login of connect(), which run on
\* with their own statements. The next line that arrives settles the call that
\* is pending then, whichever command the server wrote it for.
C31_TimeoutTouchesOnlyItsCall ==
  [][/\ \A i \in 1..Len(cmds) :
          cmds[i].timer =>
            \E s \in {commandTimeout(State, i)} :
              /\ s.socket = socket
              /\ s.connected = connected
              /\ s.authenticated = authenticated
              /\ s.buffer = buffer
              /\ s.written = written
              /\ s.conns = conns
              /\ s.xfers = xfers
              /\ s.op = op
              /\ s.listeners = Without(listeners, [kind |-> "cmd", id |-> i])
              /\ s.cmds[i].state = "rejected"
              /\ \A j \in 1..Len(cmds) : j # i => s.cmds[j] = cmds[j]
     /\ \A i \in 1..Len(cmds) :
          /\ cmds[i].state = "pending"
          /\ cmds[i].cont.kind \notin {"quit", "auth"}
          /\ cmds'[i].state = "rejected"
          /\ cmds'[i].result.kind = "timeout"
          => /\ socket' = socket
             /\ connected' = connected
             /\ authenticated' = authenticated
             /\ buffer' = buffer
     /\ server'.served = server.served + 1
          => \A j \in 1..Len(cmds) :
               cmds[j].state = "pending" => cmds'[j].state # "pending"]_vars

\* exists('/f') has timed out; the reply to its SIZE has arrived during
\* exists('/a') and has made that call resolve with true
C31_Witness ==
  /\ op.kind = "exists"
  /\ op.state = "resolved"
  /\ op.path = <<"/", "a">>
  /\ op.value = TRUE
  /\ connected /\ authenticated /\ socket = "open"
  /\ Len(written) = 4
  /\ written[3] = SIZE_ \o <<"/", "f">> \o CRLF
  /\ written[4] = SIZE_ \o <<"/", "a">> \o CRLF
  /\ server.served = 3

\* the fields of a text between its dots
RECURSIVE Fields(_)
Fields(s) ==
  IF \E k \in 1..Len(s) : s[k] = "."
  THEN LET k == CHOOSE k \in 1..Len(s) :
                  s[k] = "." /\ \A m \in 1..(k - 1) : s[m] # "."
       IN  <<SubSeq(s, 1, k - 1)>> \o Fields(SubSeq(s, k + 1, Len(s)))
  ELSE <<s>>
\* a text of one to three digits that denotes a number of 0..255
Octet(s) ==
  /\ Len(s) \in 1..3
  /\ \A k \in 1..Len(s) : s[k] \in Digits
  /\ parseInt(s) \in 0..255

\* C32: the endpoint a transfer connects its data socket to has a port in
\* 0..65535 and a host of four dot-separated numbers of 0..255 each.
C32_EndpointInRange ==
  \A t \in 1..Len(xfers) :
    xfers[t].kind # "done" =>
      /\ xfers[t].endpoint.port \in 0..65535
      /\ Len(Fields(xfers[t].endpoint.host)) = 4
      /\ \A k \in 1..4 : Octet(Fields(xfers[t].endpoint.host)[k])

\* isConnected() of the facade
isConnected == connected /\ authenticated

\* C33: in every state authenticated implies connected, so that isConnected()
\* is true exactly when authenticated is true.
C33_AuthenticatedImpliesConnected ==
  /\ authenticated => connected
  /\ isConnected <=> authenticated

\* C34: while the latest connect() call has rejected and no connect() call
\* is pending, a step that starts no new connect() call does not set
\* authenticated.
C34_RejectedConnectStaysOut ==
  [][(/\ Len(conns) > 0
      /\ \A c \in 1..Len(conns) : conns[c].state # "pending"
      /\ conns[Len(conns)].state = "rejected"
      /\ Len(conns') = Len(conns)
      /\ ~authenticated) => ~authenticated']_vars

\* the 'response' listeners an upload, download or list call t has installed
\* and that are still subscribed: its terminal-reply handler and the handler
\* of its transfer command
Installed(t) ==
  {l \in {listeners[k] : k \in 1..Len(listeners)} :
     \/ l = [kind |-> "final", id |-> t]
     \/ /\ l.kind = "cmd"
        /\ cmds[l.id].cont = [kind |-> "stor", xfer |-> t]}

\* C35: once an upload, download or list call has settled, none of the
\* 'response' listeners it installed is subscribed.
C35_NoListenerOutlivesTransfer ==
  \A t \in 1..Len(xfers) : xfers[t].state # "pending" => Installed(t) = {}

\* the commands written so far that start with the given word
Sent(word) == {j \in 1..Len(written) : startsWith(written[j], word)}

\* C36: no more USER commands and no more PASS commands have been written
\* than connect() calls have been made.
C36_OneLoginPerConnect ==
  /\ Cardinality(Sent(USER_)) <= Len(conns)
  /\ Cardinality(Sent(PASS_)) <= Len(conns)

====
